---- MODULE Spec2Model ----
(***************************************************************************)
(* pysymbolcheck: transitive symbol resolution of an ELF binary and        *)
(* evaluation of rules over the merged symbol table.                       *)
(*                                                                         *)
(* The model follows src/pysymbolcheck/__main__.py (the packaged entry     *)
(* point pysymbolcheck.__main__:main).  The file system, the ELF reader    *)
(* (pyelftools) and the command line are the environment: they are fixed   *)
(* by Init and never change.  jsonmerge.merge is modelled by what its      *)
(* default strategies do (objectMerge on objects, overwrite on the rest).  *)
(***************************************************************************)
EXTENDS Integers, Sequences, FiniteSets, TLC

\* ------------------------------------------------------------------ bounds
\* depth of nested get_symbols_rec calls the interpreter allows before it
\* raises RecursionError (the interpreter's limit, scaled down)
MaxDepth == 4
\* longest rule list read from the rule file
MaxRules == 2

VARIABLES
    \* ---- environment -----------------------------------------------
    args_file,      \* args.file
    args_libpath,   \* args.libpath.split(":")
    rules_json,     \* what open(args.rules) / json.load yields
    fs,             \* set of existing paths
    dirs,           \* existing platform library directories
    walk,           \* order in which a recursive glob walks subdirectories
    elf,            \* name -> what the ELF reader finds in that file
    \* ---- program ---------------------------------------------------
    pc,             \* position of main; "exit" is the sys.exit that ends main,
                    \* "abort" a sys.exit(-1) or an uncaught exception before it
    fut,            \* global fut
    rules,          \* local rules of main
    symbols,        \* global symbols
    stack,          \* activation records of get_symbols_rec, innermost last
    results,        \* the list eval_rules builds, one entry per rule
    stdout,         \* lines written to sys.stdout
    stderr,         \* lines written to sys.stderr
    exitcode,       \* process exit status (-1 while running)
    \* ---- history ---------------------------------------------------
    visits,         \* name -> number of get_symbols_rec calls on it
    lastMerge,      \* operands and result of the latest merge call
    evaluated,      \* ids of the rules parse_rules was called on, in call order
    first           \* table of the previous invocation (second invocation only)

envvars  == <<args_file, args_libpath, rules_json, fs, dirs, walk, elf>>
progvars == <<pc, fut, rules, symbols, stack, results, stdout, stderr, exitcode>>
histvars == <<visits, lastMerge, evaluated, first>>
vars     == <<envvars, progvars, histvars>>

\* ------------------------------------------------------------ name spaces
Files     == {"app", "libx.so", "liby.so"}
AbsNames  == {"/opt/libz.so"}
Names     == Files \cup AbsNames
SymNames  == {"init", "helper"}
Subdirs   == {"a", "b"}
StdLibs   == <<"/usr/local/lib", "/usr/lib">>
Roots     == {"cwd", "", "/opt/lib", "/usr/local/lib", "/usr/lib"}

Path(root, sub, name) == [root |-> root, sub |-> sub, name |-> name]
\* an absolute file name used as a path, with nothing put in front of it
AbsPath(name) == [root |-> "<abs>", sub |-> "", name |-> name]

Range(s) == {s[i] : i \in DOMAIN s}

\* --------------------------------------------------------- find_lib_in_path
isabs(filename) == filename \in AbsNames

exists(root, filename) == Path(root, "", filename) \in fs

\* glob.glob(lib + "/**/" + filename, recursive=True): "**" matches zero or
\* more directories, the walk order inside a root is the file system's
glob(root, filename) ==
    (IF exists(root, filename) THEN <<Path(root, "", filename)>> ELSE <<>>)
    \o [i \in 1..Len(SelectSeq(walk, LAMBDA d : Path(root, d, filename) \in fs))
          |-> Path(root, SelectSeq(walk, LAMBDA d : Path(root, d, filename) \in fs)[i], filename)]

RECURSIVE first_direct(_, _)
first_direct(filename, path) ==
    IF path = <<>> THEN [ok |-> FALSE]
    ELSE IF exists(Head(path), filename)
         THEN [ok |-> TRUE, path |-> Path(Head(path), "", filename)]
         ELSE first_direct(filename, Tail(path))

RECURSIVE first_glob(_, _)
first_glob(filename, path) ==
    IF path = <<>> THEN [ok |-> FALSE]
    ELSE IF glob(Head(path), filename) # <<>>
         THEN [ok |-> TRUE, path |-> glob(Head(path), filename)[1]]
         ELSE first_glob(filename, Tail(path))

\* the single loop of the standalone script src/pysymbolcheck.py:101-112,
\* which looks into the subdirectories of a root before the next root
RECURSIVE find_lib_in_path_one_loop(_, _)
find_lib_in_path_one_loop(filename, path) ==
    IF isabs(filename) THEN [ok |-> TRUE, path |-> AbsPath(filename)]
    ELSE IF path = <<>> THEN [ok |-> FALSE]
    ELSE IF exists(Head(path), filename)
         THEN [ok |-> TRUE, path |-> Path(Head(path), "", filename)]
    ELSE IF glob(Head(path), filename) # <<>>
         THEN [ok |-> TRUE, path |-> glob(Head(path), filename)[1]]
    ELSE find_lib_in_path_one_loop(filename, Tail(path))

\* ok = FALSE is sys.exit(-1) after "Can't find the needed lib"
find_lib_in_path(filename, path) ==
    IF isabs(filename) THEN [ok |-> TRUE, path |-> AbsPath(filename)]
    ELSE IF first_direct(filename, path).ok THEN first_direct(filename, path)
    ELSE first_glob(filename, path)

get_std_lib_paths == SelectSeq(StdLibs, LAMBDA item : item \in dirs)

\* args.libpath as main rebuilds it
lib_path == <<"cwd">> \o args_libpath \o get_std_lib_paths

\* ------------------------------------------------------------ get_symbols
Put(table, key, value) ==
    [k \in DOMAIN table \cup {key} |-> IF k = key THEN value ELSE table[k]]

\* one symbol of one section
sym_entry(sym, sec, filename) ==
    IF sym.st_shndx = "SHN_UNDEF"
    THEN [size |-> sym.st_size, type |-> sym.type, file |-> filename,
          section |-> sec.name, used_in |-> <<filename>>]
    ELSE [size |-> sym.st_size, type |-> sym.type, file |-> filename,
          section |-> sec.name]

RECURSIVE iter_symbols(_, _, _, _)
iter_symbols(syms, sec, filename, result) ==
    IF syms = <<>> THEN result
    ELSE IF Head(syms).name = ""
         THEN iter_symbols(Tail(syms), sec, filename, result)
         ELSE iter_symbols(Tail(syms), sec, filename,
                  Put(result, Head(syms).name, sym_entry(Head(syms), sec, filename)))

\* a section without a symbol table raises inside the try and is skipped
RECURSIVE iter_sections(_, _, _)
iter_sections(secs, filename, result) ==
    IF secs = <<>> THEN result
    ELSE IF ~Head(secs).symtab
         THEN iter_sections(Tail(secs), filename, result)
         ELSE iter_sections(Tail(secs), filename,
                  iter_symbols(Head(secs).syms, Head(secs), filename, result))

\* outcome of a call: "ok" with a value, "exit" for sys.exit(-1), "raise"
\* for an exception nothing catches
Ok(value)   == [status |-> "ok", value |-> value, msg |-> ""]
ExitM1(msg) == [status |-> "exit", value |-> <<>>, msg |-> msg]
Raise(exc)  == [status |-> "raise", value |-> <<>>, msg |-> exc]

get_symbols(filename, path) ==
    LET found == find_lib_in_path(filename, path) IN
    IF ~found.ok THEN ExitM1("Can't find the needed lib")
    ELSE IF found.path \notin fs THEN Raise("FileNotFoundError")
    ELSE IF elf[filename].kind # "elf" THEN ExitM1("Can't read input file - Seems not to be an elf")
    ELSE Ok(iter_sections(elf[filename].sections, filename, <<>>))

get_soname(filename, path) ==
    LET found == find_lib_in_path(filename, path) IN
    IF ~found.ok THEN ExitM1("Can't find the needed lib")
    ELSE IF found.path \notin fs THEN Raise("FileNotFoundError")
    ELSE IF elf[filename].kind # "elf" THEN ExitM1("Can't read input file - Seems not to be an elf")
    ELSE IF elf[filename].machine \notin {"EM_X86_64", "EM_386"}
         THEN Raise("RuntimeError: unsupported machine architecture")
    ELSE IF ~elf[filename].dynamic THEN Ok(<<>>)
    ELSE Ok(elf[filename].needed)

\* ------------------------------------------------------------------ merge
\* jsonmerge.merge(base, head) with the empty schema: an object is merged
\* key by key, anything else in head replaces what base has
merge_entry(base, head) ==
    [k \in DOMAIN base \cup DOMAIN head |-> IF k \in DOMAIN head THEN head[k] ELSE base[k]]

\* the policy that keeps what base has and unites the used_in lists
merge_entry_base_wins(base, head) ==
    [k \in DOMAIN base \cup DOMAIN head |->
        IF k = "used_in"
        THEN (IF k \in DOMAIN base THEN base[k] ELSE <<>>)
             \o SelectSeq(IF k \in DOMAIN head THEN head[k] ELSE <<>>,
                          LAMBDA f : k \notin DOMAIN base \/ f \notin Range(base[k]))
        ELSE IF k \in DOMAIN base THEN base[k] ELSE head[k]]

merge_base_wins(base, head) ==
    [s \in DOMAIN base \cup DOMAIN head |->
        IF s \notin DOMAIN head THEN base[s]
        ELSE IF s \notin DOMAIN base THEN head[s]
        ELSE merge_entry_base_wins(base[s], head[s])]

merge(base, head) ==
    [s \in DOMAIN base \cup DOMAIN head |->
        IF s \notin DOMAIN head THEN base[s]
        ELSE IF s \notin DOMAIN base THEN head[s]
        ELSE merge_entry(base[s], head[s])]

\* ------------------------------------------------------------- rule texts
\* A rule text is a sequence of tokens.  The calls of the rule language are
\* one token each, as the patterns of _mapping_table match them whole.
Tok(k)        == [k |-> k, a |-> "", b |-> "", n |-> 0]
Call1(k, a)   == [k |-> k, a |-> a, b |-> "", n |-> 0]
Call2(k, a, b) == [k |-> k, a |-> a, b |-> b, n |-> 0]
IntLit(n)     == [k |-> "int", a |-> "", b |-> "", n |-> n]
StrLit(s)     == [k |-> "str", a |-> s, b |-> "", n |-> 0]

\* re.sub(k, v, org_rule) for every entry of _mapping_table; the whitespace
\* the replacements add is what the following re.sub and strip remove
_mapping_table(tok) ==
    CASE tok.k = "AVAILABLE" -> [tok EXCEPT !.k = "__get_available"]
      [] tok.k = "USED"      -> [tok EXCEPT !.k = "__get_used"]
      [] tok.k = "SIZE"      -> [tok EXCEPT !.k = "__get_size"]
      [] tok.k = "TYPE"      -> [tok EXCEPT !.k = "__get_type"]
      [] tok.k = "LARGEST"   -> [tok EXCEPT !.k = "__get_largest_symbol"]
      [] tok.k = "&&"        -> [tok EXCEPT !.k = "and"]
      [] tok.k = "||"        -> [tok EXCEPT !.k = "or"]
      [] tok.k = "!"         -> [tok EXCEPT !.k = "not"]
      [] OTHER               -> tok

translate(rule) == [i \in 1..Len(rule) |-> _mapping_table(rule[i])]

\* ------------------------------------------------------- compile(.., "eval")
\* the expression grammar the translated tokens can form:
\*   or_test    : and_test ("or" and_test)*
\*   and_test   : not_test ("and" not_test)*
\*   not_test   : "not" not_test | comparison
\*   comparison : atom ((">" | "==") atom)?
\*   atom       : call | int | str | "(" or_test ")"
CallKinds == {"__get_available", "__get_used", "__get_size", "__get_type",
              "__get_largest_symbol"}
NoParse == [ok |-> FALSE, ast |-> <<>>, rest |-> <<>>]
Parsed(ast, rest) == [ok |-> TRUE, ast |-> ast, rest |-> rest]

\* the value of body(x) for x = v, with v evaluated once
Bind(v, body(_)) == CHOOSE r \in {body(x) : x \in {v}} : TRUE

RECURSIVE or_test(_), or_rest(_, _), and_test(_), and_rest(_, _), not_test(_),
          comparison(_), atom(_)

atom(toks) ==
    IF toks = <<>> THEN NoParse
    ELSE IF Head(toks).k \in CallKinds \cup {"int", "str"}
         THEN Parsed([op |-> "atom", tok |-> Head(toks)], Tail(toks))
    ELSE IF Head(toks).k = "("
         THEN Bind(or_test(Tail(toks)), LAMBDA inner :
                  IF inner.ok /\ inner.rest # <<>> /\ Head(inner.rest).k = ")"
                  THEN Parsed(inner.ast, Tail(inner.rest))
                  ELSE NoParse)
    ELSE NoParse

comparison(toks) ==
    Bind(atom(toks), LAMBDA l :
        IF ~l.ok THEN NoParse
        ELSE IF l.rest # <<>> /\ Head(l.rest).k \in {">", "=="}
             THEN Bind(atom(Tail(l.rest)), LAMBDA r :
                      IF r.ok
                      THEN Parsed([op |-> Head(l.rest).k, l |-> l.ast, r |-> r.ast], r.rest)
                      ELSE NoParse)
        ELSE l)

not_test(toks) ==
    IF toks # <<>> /\ Head(toks).k = "not"
    THEN Bind(not_test(Tail(toks)), LAMBDA e :
             IF e.ok THEN Parsed([op |-> "not", e |-> e.ast], e.rest) ELSE NoParse)
    ELSE comparison(toks)

and_rest(l, toks) ==
    IF toks # <<>> /\ Head(toks).k = "and"
    THEN Bind(not_test(Tail(toks)), LAMBDA r :
             IF r.ok THEN and_rest([op |-> "and", l |-> l, r |-> r.ast], r.rest)
             ELSE NoParse)
    ELSE Parsed(l, toks)

and_test(toks) ==
    Bind(not_test(toks), LAMBDA l : IF l.ok THEN and_rest(l.ast, l.rest) ELSE NoParse)

or_rest(l, toks) ==
    IF toks # <<>> /\ Head(toks).k = "or"
    THEN Bind(and_test(Tail(toks)), LAMBDA r :
             IF r.ok THEN or_rest([op |-> "or", l |-> l, r |-> r.ast], r.rest)
             ELSE NoParse)
    ELSE Parsed(l, toks)

or_test(toks) ==
    Bind(and_test(toks), LAMBDA l : IF l.ok THEN or_rest(l.ast, l.rest) ELSE NoParse)

\* compile raises SyntaxError unless the whole text is one expression
compile(toks) ==
    Bind(or_test(toks), LAMBDA e :
        IF e.ok /\ e.rest = <<>> THEN [ok |-> TRUE, ast |-> e.ast]
        ELSE [ok |-> FALSE, ast |-> <<>>])

\* ------------------------------------------------------- predicate functions
\* values of the expression language
PyBool(b) == [t |-> "bool", b |-> b, n |-> IF b THEN 1 ELSE 0, s |-> ""]
PyInt(n)  == [t |-> "int", b |-> n # 0, n |-> n, s |-> ""]
PyStr(s)  == [t |-> "str", b |-> s # "", n |-> 0, s |-> s]
PyExc(e)  == [t |-> "exc", b |-> FALSE, n |-> 0, s |-> e]

RECURSIVE SetMax(_)
SetMax(S) == LET x == CHOOSE y \in S : TRUE IN
             IF S = {x} THEN x
             ELSE IF x > SetMax(S \ {x}) THEN x ELSE SetMax(S \ {x})

__get_largest_symbol(syms) ==
    IF DOMAIN syms = {} THEN PyExc("ValueError")
    ELSE PyInt(SetMax({syms[k]["size"] : k \in DOMAIN syms}))

__get_available(item, syms) == item \in DOMAIN syms

\* the predicate without the defining-file alternative
__get_used_only_used_in(item, syms, f) ==
    IF item \notin DOMAIN syms THEN FALSE
    ELSE "used_in" \in DOMAIN syms[item] /\ f \in Range(syms[item]["used_in"])

__get_used(item, syms, f) ==
    IF item \notin DOMAIN syms THEN FALSE
    ELSE syms[item]["file"] = f
         \/ ("used_in" \in DOMAIN syms[item] /\ f \in Range(syms[item]["used_in"]))

__get_size(item, syms) ==
    IF item \notin DOMAIN syms \/ "size" \notin DOMAIN syms[item] THEN PyStr("")
    ELSE PyInt(syms[item]["size"])

__get_type(item, type_, syms) ==
    IF item \notin DOMAIN syms \/ "type" \notin DOMAIN syms[item] THEN PyStr("")
    ELSE PyStr(syms[item]["type"])

\* ------------------------------------------------------------------- eval
eval_atom(tok, syms, f) ==
    CASE tok.k = "__get_available"      -> PyBool(__get_available(tok.a, syms))
      [] tok.k = "__get_used"           -> PyBool(__get_used(tok.a, syms, f))
      [] tok.k = "__get_size"           -> __get_size(tok.a, syms)
      [] tok.k = "__get_type"           -> __get_type(tok.a, tok.b, syms)
      [] tok.k = "__get_largest_symbol" -> __get_largest_symbol(syms)
      [] tok.k = "int"                  -> PyInt(tok.n)
      [] OTHER                          -> PyStr(tok.a)

\* ">" orders numbers with numbers and strings with strings; the only
\* strings a rule of the token language can order are equal or empty
gt(l, r) ==
    IF l.t = "exc" THEN l
    ELSE IF r.t = "exc" THEN r
    ELSE IF l.t \in {"bool", "int"} /\ r.t \in {"bool", "int"} THEN PyBool(l.n > r.n)
    ELSE IF l.t = "str" /\ r.t = "str" THEN PyBool(l.s # r.s /\ r.s = "")
    ELSE PyExc("TypeError")

eq(l, r) ==
    IF l.t = "exc" THEN l
    ELSE IF r.t = "exc" THEN r
    ELSE IF l.t \in {"bool", "int"} /\ r.t \in {"bool", "int"} THEN PyBool(l.n = r.n)
    ELSE IF l.t = "str" /\ r.t = "str" THEN PyBool(l.s = r.s)
    ELSE PyBool(FALSE)

RECURSIVE eval(_, _, _)
eval(ast, syms, f) ==
    CASE ast.op = "atom" -> eval_atom(ast.tok, syms, f)
      [] ast.op = "not"  -> Bind(eval(ast.e, syms, f), LAMBDA e :
                                IF e.t = "exc" THEN e ELSE PyBool(~e.b))
      [] ast.op = "and"  -> Bind(eval(ast.l, syms, f), LAMBDA l :
                                IF l.t = "exc" \/ ~l.b THEN l ELSE eval(ast.r, syms, f))
      [] ast.op = "or"   -> Bind(eval(ast.l, syms, f), LAMBDA l :
                                IF l.t = "exc" \/ l.b THEN l ELSE eval(ast.r, syms, f))
      [] ast.op = ">"    -> Bind(eval(ast.l, syms, f), LAMBDA l :
                                Bind(eval(ast.r, syms, f), LAMBDA r : gt(l, r)))
      [] OTHER           -> Bind(eval(ast.l, syms, f), LAMBDA l :
                                Bind(eval(ast.r, syms, f), LAMBDA r : eq(l, r)))

\* ------------------------------------------------- report_issues, parse_rules
report_issues(rule, f) ==
    [fut |-> f, severity |-> rule.severity, id |-> rule.id, msg |-> rule.msg]

not_well_formed(rule, e) ==
    [fut |-> "", severity |-> "not well-formed", id |-> rule.id, msg |-> e]

\* a parse_rules that lets a rule pass when it cannot be evaluated
parse_rules_error_passes(item, syms, f) ==
    Bind(compile(translate(item.rule)), LAMBDA code :
    Bind(IF code.ok THEN eval(code.ast, syms, f) ELSE PyExc("SyntaxError"), LAMBDA value :
        IF value.t = "exc"
        THEN [ret |-> TRUE, out |-> <<>>, err |-> <<not_well_formed(item, value.s)>>]
        ELSE IF value.b
        THEN [ret |-> FALSE, out |-> <<report_issues(item, f)>>, err |-> <<>>]
        ELSE [ret |-> TRUE, out |-> <<>>, err |-> <<>>]))

\* what one call of parse_rules returns and writes
parse_rules(item, syms, f) ==
    Bind(compile(translate(item.rule)), LAMBDA code :
    Bind(IF code.ok THEN eval(code.ast, syms, f) ELSE PyExc("SyntaxError"), LAMBDA value :
        IF value.t = "exc"
        THEN [ret |-> FALSE, out |-> <<>>, err |-> <<not_well_formed(item, value.s)>>]
        ELSE IF value.b
        THEN [ret |-> FALSE, out |-> <<report_issues(item, f)>>, err |-> <<>>]
        ELSE [ret |-> TRUE, out |-> <<>>, err |-> <<>>]))

\* all(list)
all(list) == \A i \in DOMAIN list : list[i]

\* ------------------------------------------------------------ environment
\* what a file holds: per symbol name "absent", "def" (defined, with the
\* size its file gives it) or "undef" (a reference, section index SHN_UNDEF)
SymStates == [SymNames -> {"absent", "def", "undef"}]
SymOrder  == <<"init", "helper">>
SizeIn(filename) ==
    CASE filename = "app" -> 16 [] filename = "libx.so" -> 8
      [] filename = "liby.so" -> 4 [] OTHER -> 2

Symbol(name, size, type, shndx) ==
    [name |-> name, st_size |-> size, type |-> type, st_shndx |-> shndx]

Sections(filename, st) ==
    LET undef == SelectSeq(SymOrder, LAMBDA n : st[n] = "undef")
        def   == SelectSeq(SymOrder, LAMBDA n : st[n] = "def")
    IN << [name |-> ".text", symtab |-> FALSE, syms |-> <<>>],
          [name |-> ".dynsym", symtab |-> TRUE,
           syms |-> <<Symbol("", 0, "STT_NOTYPE", "SHN_UNDEF")>>
                    \o [i \in 1..Len(undef) |-> Symbol(undef[i], 0, "STT_NOTYPE", "SHN_UNDEF")]],
          [name |-> ".symtab", symtab |-> TRUE,
           syms |-> [i \in 1..Len(def) |-> Symbol(def[i], SizeIn(filename), "STT_FUNC", "1")]] >>

ElfFile(filename, st, needed) ==
    [kind |-> "elf", machine |-> "EM_X86_64", dynamic |-> TRUE,
     needed |-> needed, sections |-> Sections(filename, st)]

NoSyms == [n \in SymNames |-> "absent"]

\* the rule file: ok = FALSE when json.load raises
RuleFile(list) == [ok |-> TRUE, rules |-> list]
Unparsable     == [ok |-> FALSE, rules |-> <<>>]

Rule(id, severity, msg, rule) ==
    [id |-> id, severity |-> severity, msg |-> msg, rule |-> rule]

\* AVAILABLE(helper) && !USED(helper)
RuleUnused == Rule("unused", "error", "helper is not used",
    <<Call1("AVAILABLE", "helper"), Tok("&&"), Tok("!"), Call1("USED", "helper")>>)
\* SIZE(init) > 32
RuleSize == Rule("size", "warning", "init is too large",
    <<Call1("SIZE", "init"), Tok(">"), IntLit(32)>>)
\* USED(helper)
RuleUsed == Rule("used", "error", "helper is used", <<Call1("USED", "helper")>>)
\* (AVAILABLE(init)
RuleUnbalanced == Rule("paren", "error", "never reported",
    <<Tok("("), Call1("AVAILABLE", "init")>>)
\* SIZE(init) != 0
RuleNotEqual == Rule("ne", "error", "never reported",
    <<Call1("SIZE", "init"), Tok("!"), Tok("="), IntLit(0)>>)
\* LARGEST() > 8
RuleLargest == Rule("largest", "warning", "a symbol is too large",
    <<Tok("LARGEST"), Tok(">"), IntLit(8)>>)
\* AVAILABLE(init) && (SIZE(init) > 8 || TYPE(init,FUNC) == 'STT_NOTYPE')
RuleGuarded == Rule("guarded", "info", "init is large or untyped",
    <<Call1("AVAILABLE", "init"), Tok("&&"), Tok("("), Call1("SIZE", "init"), Tok(">"),
      IntLit(8), Tok("||"), Call2("TYPE", "init", "FUNC"), Tok("=="), StrLit("STT_NOTYPE"),
      Tok(")")>>)

\* SIZE(helper): a number, true unless it is 0, or the empty string
RuleTruthy == Rule("truthy", "info", "helper has a size", <<Call1("SIZE", "helper")>>)

RuleCatalog == {RuleUnused, RuleSize, RuleUsed, RuleUnbalanced, RuleNotEqual,
                RuleLargest, RuleGuarded, RuleTruthy}

RECURSIVE SeqsUpTo(_, _)
SeqsUpTo(S, n) ==
    IF n = 0 THEN {<<>>}
    ELSE SeqsUpTo(S, n - 1)
         \cup {Append(q, x) : q \in {r \in SeqsUpTo(S, n - 1) : Len(r) = n - 1}, x \in S}

InCwd(names) == {Path("cwd", "", n) : n \in names}

\* ------------------------------------------------------------------- main
\* an activation record of get_symbols_rec; path is the file the call opened
Frame(filename) ==
    [filename |-> filename, path |-> AbsPath(""), res |-> <<>>, libs |-> <<>>,
     entered |-> FALSE]
Top == stack[Len(stack)]

isfile(filename) ==
    IF isabs(filename) THEN AbsPath(filename) \in fs ELSE Path("cwd", "", filename) \in fs

Line(severity, msg) == [fut |-> "", severity |-> severity, id |-> "", msg |-> msg]

\* sys.exit(-1) after a message on stderr
Fatal(msg) ==
    /\ pc' = "abort" /\ exitcode' = 255
    /\ stderr' = Append(stderr, Line("fatal", msg))
    /\ stack' = <<>>

\* an exception reaches the top of the interpreter: traceback, status 1
Uncaught(exc) ==
    /\ pc' = "abort" /\ exitcode' = 1
    /\ stderr' = Append(stderr, Line("Traceback", exc))
    /\ stack' = <<>>

Abort(outcome) ==
    IF outcome.status = "exit" THEN Fatal(outcome.msg) ELSE Uncaught(outcome.msg)

\* main up to the call of get_symbols_rec
main ==
    /\ pc = "main"
    /\ fut' = args_file
    /\ IF ~isfile(args_file)
       THEN Fatal("File is not a file") /\ UNCHANGED rules
       ELSE IF ~rules_json.ok
       THEN Fatal("Can't parse rules") /\ UNCHANGED rules
       ELSE /\ rules' = rules_json.rules
            /\ stack' = <<Frame(args_file)>>
            /\ pc' = "get_symbols_rec"
            /\ UNCHANGED <<stderr, exitcode>>
    /\ UNCHANGED <<envvars, symbols, results, stdout, histvars>>

\* entry of get_symbols_rec: get_symbols, then get_soname for the loop
get_symbols_rec ==
    /\ pc = "get_symbols_rec" /\ stack # <<>> /\ ~Top.entered
    /\ LET res  == get_symbols(Top.filename, lib_path)
           libs == get_soname(Top.filename, lib_path)
       IN  IF res.status # "ok" THEN Abort(res)
           ELSE IF libs.status # "ok" THEN Abort(libs)
           ELSE /\ stack' = [stack EXCEPT ![Len(stack)] =
                        [filename |-> Top.filename,
                         path |-> find_lib_in_path(Top.filename, lib_path).path,
                         res |-> res.value, libs |-> libs.value, entered |-> TRUE]]
                /\ UNCHANGED <<pc, exitcode, stderr>>
    /\ visits' = [visits EXCEPT ![Top.filename] = @ + 1]
    /\ UNCHANGED <<envvars, fut, rules, symbols, results, stdout, lastMerge, evaluated, first>>

\* a resolver that remembers the libraries it has resolved and skips them
get_symbols_rec_call_memo ==
    /\ pc = "get_symbols_rec" /\ stack # <<>> /\ Top.entered /\ Top.libs # <<>>
    /\ IF visits[Head(Top.libs)] > 0
       THEN stack' = [stack EXCEPT ![Len(stack)].libs = Tail(@)]
       ELSE stack' = Append(stack, Frame(Head(Top.libs)))
    /\ UNCHANGED <<envvars, pc, exitcode, stderr, fut, rules, symbols, results, stdout,
                   histvars>>

\* the recursive call for the next library; a call deeper than the
\* interpreter allows raises RecursionError, which ends the run either
\* through an "except BaseException: sys.exit(-1)" or uncaught
get_symbols_rec_call ==
    /\ pc = "get_symbols_rec" /\ stack # <<>> /\ Top.entered /\ Top.libs # <<>>
    /\ IF Len(stack) >= MaxDepth
       THEN \E how \in {"exit", "raise"} :
                Abort([status |-> how, value |-> <<>>, msg |-> "RecursionError"])
       ELSE /\ stack' = Append(stack, Frame(Head(Top.libs)))
            /\ UNCHANGED <<pc, exitcode, stderr>>
    /\ UNCHANGED <<envvars, fut, rules, symbols, results, stdout, histvars>>

\* the end of the loop: return res, which the caller merges into its own
get_symbols_rec_return ==
    /\ pc = "get_symbols_rec" /\ stack # <<>> /\ Top.entered /\ Top.libs = <<>>
    /\ IF Len(stack) = 1
       THEN /\ symbols' = Top.res
            /\ stack' = <<>>
            /\ pc' = "eval_rules"
            /\ UNCHANGED lastMerge
       ELSE LET caller == stack[Len(stack) - 1]
                merged == merge(caller.res, Top.res)
            IN  /\ stack' = Append(SubSeq(stack, 1, Len(stack) - 2),
                        [caller EXCEPT !.res = merged, !.libs = Tail(caller.libs)])
                /\ lastMerge' = <<[a |-> caller.res, b |-> Top.res, r |-> merged,
                                   lib |-> Top.filename]>>
                /\ UNCHANGED <<symbols, pc>>
    /\ UNCHANGED <<envvars, fut, rules, results, stdout, stderr, exitcode, visits, evaluated, first>>

\* an eval_rules over a generator: all() stops asking at the first failure
eval_rules_generator ==
    /\ pc = "eval_rules" /\ Len(results) < Len(rules)
    /\ IF all(results)
       THEN \E r \in {parse_rules(rules[Len(results) + 1], symbols, fut)} :
                /\ results' = Append(results, r.ret)
                /\ stdout' = stdout \o r.out
                /\ stderr' = stderr \o r.err
                /\ evaluated' = Append(evaluated, rules[Len(results) + 1].id)
       ELSE /\ results' = Append(results, FALSE)
            /\ UNCHANGED <<stdout, stderr, evaluated>>
    /\ UNCHANGED <<envvars, pc, fut, rules, symbols, stack, exitcode, visits, lastMerge, first>>

\* eval_rules: the list comprehension calls parse_rules on the next rule
eval_rules ==
    /\ pc = "eval_rules" /\ Len(results) < Len(rules)
    /\ \E r \in {parse_rules(rules[Len(results) + 1], symbols, fut)} :
           /\ results' = Append(results, r.ret)
           /\ stdout' = stdout \o r.out
           /\ stderr' = stderr \o r.err
    /\ evaluated' = Append(evaluated, rules[Len(results) + 1].id)
    /\ UNCHANGED <<envvars, pc, fut, rules, symbols, stack, exitcode, visits, lastMerge, first>>

\* all(...) of the finished list decides between sys.exit(1) and sys.exit(0)
main_exit ==
    /\ pc = "eval_rules" /\ Len(results) = Len(rules)
    /\ exitcode' = IF ~all(results) THEN 1 ELSE 0
    /\ pc' = "exit"
    /\ UNCHANGED <<envvars, fut, rules, symbols, stack, results, stdout, stderr, histvars>>

Next ==
    \/ main
    \/ get_symbols_rec
    \/ get_symbols_rec_call
    \/ get_symbols_rec_return
    \/ eval_rules
    \/ main_exit

\* ------------------------------------------------------------------- Init
ProgInit ==
    /\ pc = "main" /\ fut = "" /\ rules = <<>> /\ symbols = <<>> /\ stack = <<>>
    /\ results = <<>> /\ stdout = <<>> /\ stderr = <<>> /\ exitcode = -1
    /\ visits = [n \in Names |-> 0] /\ lastMerge = <<>> /\ evaluated = <<>>
    /\ first = <<>>

\* dependency lists a file can carry in its dynamic section
NeededOf(filename) ==
    CASE filename = "app"     -> {<<>>, <<"libx.so">>, <<"libx.so", "liby.so">>,
                                  <<"liby.so", "libx.so">>}
      [] filename = "libx.so" -> {<<>>, <<"liby.so">>, <<"app">>}
      [] filename = "liby.so" -> {<<>>, <<"libx.so">>}
      [] OTHER                -> {<<>>}

Graphs == {g \in [Names -> UNION {NeededOf(n) : n \in Names}] :
              \A n \in Names : g[n] \in NeededOf(n)}

\* the ELF contents of all files, for symbol states sts and graphs gs
Elfs(sts, gs) ==
    {[n \in Names |-> ElfFile(n, IF n \in Files THEN st[n] ELSE NoSyms, g[n])] :
        st \in sts, g \in gs}

\* a run on one choice of command line, file system and file contents
Start(files, libpaths, rulefiles, fss, elfs) ==
    /\ args_file \in files
    /\ args_libpath \in libpaths
    /\ rules_json \in rulefiles
    /\ fs \in fss
    /\ dirs = {"/usr/lib"}
    /\ walk \in {<<"a", "b">>, <<"b", "a">>}
    /\ elf \in elfs
    /\ ProgInit

\* every file a valid 64-bit ELF in the working directory, with every
\* combination of symbols and every dependency graph
Init ==
    /\ Start({"app"}, {<<"">>}, {RuleFile(<<RuleUnused, RuleSize>>)}, {InCwd(Files)},
             Elfs([Files -> SymStates], Graphs))
    /\ walk = <<"a", "b">>

Spec == Init /\ [][Next]_vars

\* ===================================================== properties: merging
\* the files that reference a symbol of a table without defining it
UsedIn(table, s) ==
    IF s \in DOMAIN table /\ "used_in" \in DOMAIN table[s]
    THEN Range(table[s]["used_in"]) ELSE {}

Scalars == {"size", "type", "file", "section"}
InBoth(m) == DOMAIN m.a \cap DOMAIN m.b

RECURSIVE Reach(_, _)
Reach(todo, seen) ==
    IF todo = {} THEN seen
    ELSE LET n == CHOOSE x \in todo : TRUE
             new == (Range(elf[n].needed) \ seen) \ {n}
         IN  Reach((todo \ {n}) \cup new, seen \cup {n})

Closure(root) == Reach({root}, {})

\* the file has an undefined symbol of that name
References(filename, s) ==
    \E i \in DOMAIN elf[filename].sections :
        /\ elf[filename].sections[i].symtab
        /\ \E j \in DOMAIN elf[filename].sections[i].syms :
              /\ elf[filename].sections[i].syms[j].name = s
              /\ elf[filename].sections[i].syms[j].st_shndx = "SHN_UNDEF"

Resolved == pc \in {"eval_rules", "exit"}

\* C3: once the binary is resolved, the used_in of every symbol is the
\* set of the files of the dependency closure that reference the symbol as
\* undefined.
C3_UsedInIsUnion ==
    Resolved => \A s \in SymNames :
        UsedIn(symbols, s) = {f \in Closure(args_file) : References(f, s)}

\* the scenario of C4: app defines init and references helper, its only
\* dependency libx.so defines helper
C4_Scenario ==
    /\ args_file = "app"
    /\ elf["app"] = ElfFile("app", [init |-> "def", helper |-> "undef"], <<"libx.so">>)
    /\ elf["libx.so"] = ElfFile("libx.so", [init |-> "absent", helper |-> "def"], <<>>)

\* C4: resolving app in that scenario gives init with size 16, defined in
\* app and used nowhere, and helper with size 8, defined in libx.so and used
\* in app.
C4_EndToEnd ==
    (C4_Scenario /\ pc # "main" /\ pc # "get_symbols_rec") =>
        /\ Resolved
        /\ DOMAIN symbols = {"init", "helper"}
        /\ symbols["init"]["size"] = 16 /\ symbols["init"]["file"] = "app"
        /\ UsedIn(symbols, "init") = {}
        /\ symbols["helper"]["size"] = 8 /\ symbols["helper"]["file"] = "libx.so"
        /\ UsedIn(symbols, "helper") = {"app"}

C4_Witness == C4_Scenario /\ pc = "exit" /\ "helper" \in DOMAIN symbols

\* ================================================== properties: recursion
\* main and the resolver are sequential code: a step that can be taken is
\* taken
InitLive ==
    Start({"app"}, {<<"">>}, {RuleFile(<<RuleUnused, RuleSize>>)}, {InCwd(Files)},
          Elfs([Files -> {[init |-> "def", helper |-> "undef"],
                          [init |-> "absent", helper |-> "def"]}], Graphs))

SpecLive ==
    /\ InitLive /\ [][Next]_vars
    /\ WF_vars(main) /\ WF_vars(get_symbols_rec)
    /\ WF_vars(get_symbols_rec_call) /\ WF_vars(get_symbols_rec_return)

\* a file of the closure of the root is among its own transitive dependencies
CycleFromRoot ==
    \E n \in Closure(args_file) : n \in UNION {Closure(d) : d \in Range(elf[n].needed)}

\* number of dependency paths from a file to a target, the empty path
\* included (defined on acyclic graphs)
RECURSIVE NumPaths(_, _), SumPaths(_, _)
NumPaths(n, target) == (IF n = target THEN 1 ELSE 0) + SumPaths(elf[n].needed, target)
SumPaths(libs, target) ==
    IF libs = <<>> THEN 0 ELSE NumPaths(Head(libs), target) + SumPaths(Tail(libs), target)

\* C10: on a dependency graph that is acyclic from the root and whose
\* libraries can all be found, resolution ends and hands a table to the rule
\* engine, having entered every library once per dependency path to it;
\* with a cycle reachable from the root no table is ever returned and the
\* run ends as an abort.
C10_Recursion ==
    /\ [](CycleFromRoot => ~Resolved)
    /\ []((Resolved /\ ~CycleFromRoot) =>
             \A n \in Names : visits[n] = NumPaths(args_file, n))
    /\ (~CycleFromRoot) ~> Resolved
    /\ CycleFromRoot ~> (pc = "abort")

\* liby.so was resolved twice, once below app and once below libx.so
C10_Witness == pc = "exit" /\ visits["liby.so"] = 2 /\ visits["libx.so"] = 1

\* ================================================ properties: rule engine
\* roots app and libx.so, with and without the dependency, every rule list
InitRules ==
    /\ Start({"app", "libx.so"}, {<<"">>},
             {RuleFile(l) : l \in SeqsUpTo(RuleCatalog, MaxRules)}, {InCwd(Files)},
             Elfs({st \in [Files -> SymStates] :
                       /\ st["liby.so"] = NoSyms
                       /\ st["libx.so"]["init"] = "absent"},
                  {g \in Graphs : g["libx.so"] = <<>> /\ g["liby.so"] = <<>>
                                  /\ g["app"] \in {<<>>, <<"libx.so">>}}))
    /\ walk = <<"a", "b">>

SpecRules == InitRules /\ [][Next]_vars

\* the value a rule text has on the resolved table
RuleValue(item) ==
    Bind(compile(translate(item.rule)), LAMBDA code :
        IF code.ok THEN eval(code.ast, symbols, fut) ELSE PyExc("SyntaxError"))

Malformed(item) == RuleValue(item).t = "exc"
Violated(item)  == RuleValue(item).t # "exc" /\ RuleValue(item).b
Failing(item)   == Malformed(item) \/ Violated(item)

AllEvaluated == pc \in {"eval_rules", "exit"} /\ Len(results) = Len(rules)

\* C1: eval_rules returns false exactly when some rule of the list
\* evaluates to a true value or raises while it is compiled or evaluated,
\* and true exactly when every rule evaluates to false, the empty list
\* included; main turns false into exit status 1 and true into 0.
C1_EvalRules ==
    /\ AllEvaluated => (~all(results) <=> \E i \in DOMAIN rules : Failing(rules[i]))
    /\ pc = "exit" => (exitcode = 0 <=> \A i \in DOMAIN rules : ~Failing(rules[i]))

\* a malformed rule after a passing one made the verdict false
C1_Witness ==
    /\ pc = "exit" /\ exitcode = 1 /\ Len(rules) = 2
    /\ ~Failing(rules[1]) /\ Malformed(rules[2])

\* USED as C5 defines it
UsedSpec(x, table, f) ==
    x \in DOMAIN table /\ (table[x]["file"] = f \/ f \in UsedIn(table, x))

\* C5: on the resolved table, for every symbol name x and every file f,
\* USED(x) holds exactly when x is in the table and f is x's defining
\* file or one of x's used_in files; AVAILABLE(x) and USED(x) are false for
\* a name that is not in the table; and a rule USED(helper) is reported
\* exactly when that holds of helper and the file under test.
C5_Used ==
    Resolved =>
        /\ \A x \in SymNames \cup {"missing"} : \A f \in Files :
              /\ __get_used(x, symbols, f) <=> UsedSpec(x, symbols, f)
              /\ x \notin DOMAIN symbols =>
                    ~__get_available(x, symbols) /\ ~__get_used(x, symbols, f)
              /\ (x \in DOMAIN symbols /\ symbols[x]["file"] = f) => __get_used(x, symbols, f)
        /\ \A i \in DOMAIN results :
              rules[i] = RuleUsed => (results[i] <=> ~UsedSpec("helper", symbols, fut))

\* helper is defined by the file under test and by no other, and the rule
\* USED(helper) was reported for it
C5_Witness ==
    /\ pc = "exit" /\ "helper" \in DOMAIN symbols
    /\ symbols["helper"]["file"] = fut /\ UsedIn(symbols, "helper") = {}
    /\ \E i \in DOMAIN results : rules[i] = RuleUsed /\ ~results[i]
    /\ \E f \in Files : ~__get_used("helper", symbols, f)

Ids(lines) == [i \in DOMAIN lines |-> lines[i].id]
Done(k) == SubSeq(rules, 1, k)

\* C6 as stated: every rule is evaluated once and in order, and one
\* stream carries one line per violated or malformed rule, in evaluation
\* order, and nothing for a passing rule.
C6_OneStream ==
    pc = "exit" =>
        /\ evaluated = Ids(rules)
        /\ \E stream \in {stdout, stderr} :
              Ids(stream) = Ids(SelectSeq(rules, Failing))

\* C6 amended: every rule is evaluated once and in order whatever the
\* earlier outcomes; a violated rule writes one line to standard output, a
\* malformed rule one line to standard error, a passing rule nothing, and
\* each of the two streams is in evaluation order.
C6_StreamPerKind ==
    /\ pc = "exit" => evaluated = Ids(rules)
    /\ pc \in {"eval_rules", "exit"} =>
          /\ evaluated = Ids(Done(Len(results)))
          /\ stdout = [i \in DOMAIN SelectSeq(Done(Len(results)), Violated) |->
                          report_issues(SelectSeq(Done(Len(results)), Violated)[i], fut)]
          /\ Ids(stderr) = Ids(SelectSeq(Done(Len(results)), Malformed))

\* a violated rule was evaluated after a malformed one
C6_Witness ==
    /\ pc = "exit" /\ Len(rules) = 2 /\ Malformed(rules[1]) /\ Violated(rules[2])
    /\ Len(stdout) = 1 /\ Len(stderr) = 1

\* ======================================== properties: lookup and exit status
\* what can be wrong with one file
Variants(filename, needed) ==
    { ElfFile(filename, [init |-> "def", helper |-> "undef"], needed),
      [ElfFile(filename, NoSyms, needed) EXCEPT !.machine = "EM_386"],
      [ElfFile(filename, NoSyms, needed) EXCEPT !.dynamic = FALSE],
      [ElfFile(filename, NoSyms, needed) EXCEPT !.kind = "notelf"],
      [ElfFile(filename, NoSyms, needed) EXCEPT !.machine = "EM_ARM"] }

FaultyElfs ==
    { [n \in Names |-> CASE n = "app" -> a [] n = "libx.so" -> x
                         [] OTHER -> ElfFile(n, NoSyms, <<>>)] :
        a \in UNION {Variants("app", nd) : nd \in {<<>>, <<"libx.so">>, <<"/opt/libz.so">>}},
        x \in Variants("libx.so", <<>>) }

\* the places libx.so can be at: directly or in a subdirectory of each root
LibPlaces == {Path(r, d, "libx.so") : r \in {"cwd", "/opt/lib", "/usr/lib"},
                                      d \in {""} \cup Subdirs}

\* faults of the command line, the rule file and the files, with the
\* library in the working directory or nowhere; and every placement of the
\* library under the roots, with sound files
InitFaults ==
    \/ Start({"app"}, {<<"">>},
             {Unparsable, RuleFile(<<>>), RuleFile(<<RuleUsed>>), RuleFile(<<RuleUnbalanced>>)},
             {InCwd(S) \cup Z : S \in SUBSET {"app", "libx.so"},
                                Z \in SUBSET {AbsPath("/opt/libz.so")}},
             FaultyElfs)
    \/ Start({"app"}, {<<"">>, <<"/opt/lib">>}, {RuleFile(<<RuleUsed>>)},
             {InCwd({"app"}) \cup L : L \in SUBSET LibPlaces},
             Elfs({[n \in Files |-> [init |-> "def", helper |-> "undef"]]},
                  {g \in Graphs : g["app"] = <<"libx.so">> /\ g["libx.so"] = <<>>}))

SpecFaults == InitFaults /\ [][Next]_vars

\* C7: exit status 0 exactly when all rules passed, 1 exactly when the
\* binary was resolved and a rule was violated or malformed, and a status
\* other than 0 and 1 whenever the run is aborted by a setup error.
C7_ExitCodes ==
    pc \in {"exit", "abort"} =>
        /\ exitcode = 0 <=> (pc = "exit" /\ \A i \in DOMAIN rules : ~Failing(rules[i]))
        /\ exitcode = 1 <=> (pc = "exit" /\ \E i \in DOMAIN rules : Failing(rules[i]))
        /\ pc = "abort" => exitcode \notin {0, 1}

\* positions of the roots that hold the name directly / in a subdirectory
DirectAt(filename) == {i \in DOMAIN lib_path : Path(lib_path[i], "", filename) \in fs}
BelowAt(filename) ==
    {i \in DOMAIN lib_path : \E d \in Subdirs : Path(lib_path[i], d, filename) \in fs}
Least(S) == CHOOSE i \in S : \A j \in S : i <= j

\* the file a call opened is the one C9 names
FoundAsClaimed(filename, path) ==
    IF isabs(filename) THEN path = AbsPath(filename)
    ELSE IF DirectAt(filename) # {}
         THEN path = Path(lib_path[Least(DirectAt(filename))], "", filename)
    ELSE /\ BelowAt(filename) # {}
         /\ path.root = lib_path[Least(BelowAt(filename))]
         /\ path.sub \in Subdirs /\ path.name = filename /\ path \in fs

\* a call is about to look for a relative name that no root holds
Unfindable ==
    /\ pc = "get_symbols_rec" /\ stack # <<>> /\ ~Top.entered
    /\ ~isabs(Top.filename)
    /\ DirectAt(Top.filename) = {} /\ BelowAt(Top.filename) = {}

\* C9: the file found for a relative name is root/name of the first root
\* that holds the name directly, whatever earlier roots hold in
\* subdirectories; a subdirectory match is used only when no root holds the
\* name directly, and then of the first root that has one; an absolute name
\* is used as it is; and when no root matches the run aborts with status
\* 255 instead of going on.
C9_FindLib ==
    /\ [](\A i \in DOMAIN stack :
             stack[i].entered => FoundAsClaimed(stack[i].filename, stack[i].path))
    /\ [][Unfindable => (pc' = "abort" /\ exitcode' = 255)]_vars

\* libx.so was taken from /usr/lib although the working directory, an
\* earlier root, has it in a subdirectory
C9_Witness ==
    /\ \E d \in Subdirs : Path("cwd", d, "libx.so") \in fs
    /\ \E i \in DOMAIN stack :
          /\ stack[i].entered /\ stack[i].filename = "libx.so"
          /\ stack[i].path = Path("/usr/lib", "", "libx.so")

\* ============================================ properties: order of the needs
Reverse(q) == [i \in DOMAIN q |-> q[Len(q) + 1 - i]]

\* the binary is resolved a second time after the entries of its dynamic
\* section have changed places
main_again ==
    /\ pc = "exit" /\ first = <<>>
    /\ first' = <<symbols>>
    /\ elf' = [elf EXCEPT ![args_file].needed = Reverse(@)]
    /\ pc' = "main" /\ fut' = "" /\ rules' = <<>> /\ symbols' = <<>> /\ stack' = <<>>
    /\ results' = <<>> /\ stdout' = <<>> /\ stderr' = <<>> /\ exitcode' = -1
    /\ visits' = [n \in Names |-> 0] /\ lastMerge' = <<>> /\ evaluated' = <<>>
    /\ UNCHANGED <<args_file, args_libpath, rules_json, fs, dirs, walk>>

NextOrder == Next \/ main_again

\* app needs libx.so and liby.so, which need nothing
InitOrder ==
    /\ Start({"app"}, {<<"">>}, {RuleFile(<<RuleUsed>>)}, {InCwd(Files)},
             Elfs([Files -> SymStates],
                  {g \in Graphs : g["app"] = <<"libx.so", "liby.so">>
                                  /\ g["libx.so"] = <<>> /\ g["liby.so"] = <<>>}))
    /\ walk = <<"a", "b">>

SpecOrder == InitOrder /\ [][NextOrder]_vars

\* the file holds a definition of the symbol
Defines(filename, s) ==
    \E i \in DOMAIN elf[filename].sections :
        /\ elf[filename].sections[i].symtab
        /\ \E j \in DOMAIN elf[filename].sections[i].syms :
              /\ elf[filename].sections[i].syms[j].name = s
              /\ elf[filename].sections[i].syms[j].st_shndx # "SHN_UNDEF"

\* C8: resolving the root with its two needs in either order gives, for
\* every symbol the root defines, the root as defining file and the same
\* size and type, and for every symbol the same set of used_in files.
C8_OrderStable ==
    (first # <<>> /\ Resolved) =>
        /\ \A s \in SymNames : Defines(args_file, s) =>
              /\ s \in DOMAIN symbols /\ s \in DOMAIN first[1]
              /\ symbols[s]["file"] = args_file /\ first[1][s]["file"] = args_file
              /\ symbols[s]["size"] = first[1][s]["size"]
              /\ symbols[s]["type"] = first[1][s]["type"]
        /\ \A s \in SymNames : UsedIn(symbols, s) = UsedIn(first[1], s)

====
